---- MODULE Spec2Model ----
(***************************************************************************)
(* Model of the digital-filter / adaptive-estimation pipeline of the       *)
(* repository (src/src/Indicators): highpass_filter, super_smoother,       *)
(* ultimate_smoother, CycleDetector.calculate_cycles, griffiths_predictor. *)
(*                                                                         *)
(* Every function is a pure function of its arguments, so a behaviour is   *)
(* one call: Init draws the call (function and arguments) from bounded     *)
(* sets, and the action of that function applies it and stores what the    *)
(* caller gets back (a value, or the exception that was raised) together   *)
(* with the locals the function held at that point.                        *)
(*                                                                         *)
(* Numbers.  Python floats are modelled as fixed-point integers: the real  *)
(* r is the integer r * Scale, products and quotients are rounded by       *)
(* integer division.  exp and cos are tabulated from the source formulas. *)
(* Sequences are TLA+ sequences; At(s, i) is Python's s[i] (0-based).      *)
(***************************************************************************)
EXTENDS Integers, Sequences, FiniteSets, TLC

VARIABLES call, pc, ret, loc, heap

vars == <<call, pc, ret, loc, heap>>

(* ---------------------------------------------------------------- bounds *)
\* Fixed-point resolution: the real 1.0 is the integer Scale.
Scale == 1000
\* Longest price series drawn.
MaxLen == 4
\* Largest filter period / cycle bound / window length drawn.
MaxPeriod == 3
\* Largest forecast horizon drawn.
MaxBars == 2

\* Prices a bar can take (in whole price units).
PriceVals == {0, 1, 3}

Periods == 1..MaxPeriod
Lengths == 1..MaxPeriod

RECURSIVE SeqsUpTo(_)
SeqsUpTo(n) ==
    IF n = 0 THEN {<<>>}
    ELSE LET shorter == SeqsUpTo(n - 1)
         IN  shorter \cup {Append(s, v) : s \in {t \in shorter : Len(t) = n - 1}, v \in PriceVals}

PriceLists == SeqsUpTo(MaxLen)

(* ------------------------------------------------------------ arithmetic *)
At(s, i) == s[i + 1]

FMul(a, b) == (a * b) \div Scale

FDiv(a, b) == (a * Scale) \div b

Abs(a) == IF a < 0 THEN -a ELSE a

Zeros(n) == [k \in 1..n |-> 0]

AllZero(s) == \A k \in 1..Len(s) : s[k] = 0

IsConstant(s) == \A j, k \in 1..Len(s) : s[j] = s[k]

\* math.exp(-1.414 * math.pi / period), in thousandths, period = 1..30
ExpTab == <<12, 108, 227, 329, 411, 477, 530, 574, 610, 641,
            668, 691, 711, 728, 744, 758, 770, 781, 792, 801,
            809, 817, 824, 831, 837, 843, 848, 853, 858, 862>>

\* math.cos(1.414 * 180 / period), in thousandths, period = 1..30
CosDegTab == <<-999, -25, -1000, 698, 803, 8, 230, 921, -1000, 949,
               -411, -710, 746, 784, -306, -980, -741, -3, 675, 987,
               902, 543, 70, -381, -728, -934, -1000, -944, -797, -589>>

a1(period) == ExpTab[period]

b1(period) == FMul(2 * a1(period), CosDegTab[period])

(* --------------------------------------------------------- to_float_list *)
\* The shapes of price data drawn: a flat Python list of numbers, and a
\* numpy array of shape (n, 1) (what df['Close'].values is for a one-column
\* frame).
Kinds == {"list", "column"}

\* More shapes, for the input checks: a 1-D numpy array, a DataFrame with
\* several columns, a list of lists, and a flat list holding a string that
\* float() cannot convert.
ShapeKinds == Kinds \cup {"array1d", "frameN", "listoflists", "badelem"}

\* The shapes that are not a flat sequence of real numbers.
MalformedKinds == {"column", "frameN", "listoflists", "badelem"}

\* to_float_list raises ValueError on a multi-column DataFrame, a 2-D array,
\* a list of lists and an element float() rejects; a flat list or 1-D array
\* (empty ones included) is converted by float().
to_float_list_raises(kind) == kind \in {"column", "frameN", "listoflists", "badelem"}

to_float_list(vals) == [k \in 1..Len(vals) |-> vals[k] * Scale]

(* ------------------------------------ Cycle_detector.py: highpass_filter *)
hp_c1(period) == (Scale + b1(period)) \div 4

hp_c2(period) == b1(period)

hp_c3(period) == -FMul(a1(period), a1(period))

hp_value_mut(x, hs, i, period) ==
    FMul(hp_c1(period), At(x, i) - At(x, i - 1) + At(x, i - 2))
      + FMul(hp_c2(period), At(hs, i - 1))
      + FMul(hp_c3(period), At(hs, i - 2))

hp_value(x, hs, i, period) ==
    FMul(hp_c1(period), At(x, i) - 2 * At(x, i - 1) + At(x, i - 2))
      + FMul(hp_c2(period), At(hs, i - 1))
      + FMul(hp_c3(period), At(hs, i - 2))

RECURSIVE cd_hp_loop(_, _, _, _)
cd_hp_loop(x, period, hs, i) ==
    IF i >= Len(x) THEN hs
    ELSE cd_hp_loop(x, period, Append(hs, hp_value(x, hs, i, period)), i + 1)

cd_hp_seed_mut(x) == <<At(x, 0), At(x, 1)>>

cd_hp_seed(x) == <<0, 0>>

\* highpass_filter of Cycle_detector.py, on the converted float list
cd_highpass_filter(x, period) ==
    IF Len(x) < 3 THEN Zeros(Len(x))
    ELSE cd_hp_loop(x, period, cd_hp_seed(x), 2)

(* --------------------------- High_pass_filter_function.py: highpass_filter *)
RECURSIVE fn_hp_loop(_, _, _, _)
fn_hp_loop(x, period, hs, i) ==
    IF i >= Len(x) THEN hs
    ELSE fn_hp_loop(x, period, [hs EXCEPT ![i + 1] = hp_value(x, hs, i, period)], i + 1)

fn_highpass_filter(x, period) == fn_hp_loop(x, period, Zeros(Len(x)), 2)

\* No input check: the only failure is the arithmetic of the first loop
\* pass, which raises TypeError on lists and strings (list - list, str - str),
\* so a series of fewer than 3 samples never fails.
fn_highpass_raises(kind, x) == kind \in {"listoflists", "badelem"} /\ Len(x) >= 3

(* ------------------------------------- Cycle_detector.py: super_smoother *)
ss_c1(period) == Scale - b1(period) + FMul(a1(period), a1(period))

ss_c2(period) == b1(period)

ss_c3(period) == -FMul(a1(period), a1(period))

ss_value(x, ss, i, period) ==
    (FMul(ss_c1(period), At(x, i) + At(x, i - 1)) \div 2)
      + FMul(ss_c2(period), At(ss, i - 1))
      + FMul(ss_c3(period), At(ss, i - 2))

RECURSIVE ss_loop(_, _, _, _)
ss_loop(x, period, ss, i) ==
    IF i >= Len(x) THEN ss
    ELSE ss_loop(x, period, [ss EXCEPT ![i + 1] = ss_value(x, ss, i, period)], i + 1)

ss_seed_mut(x) == Zeros(Len(x))

\* ss = [0.0] * n; ss[0] = x[0]; ss[1] = x[1]
ss_seed(x) == [k \in 1..Len(x) |-> IF k <= 2 THEN x[k] ELSE 0]

cd_super_smoother(x, period) ==
    IF Len(x) < 2 THEN x
    ELSE ss_loop(x, period, ss_seed(x), 2)

(* ------------------------ SuperSmoother_filter_function.py: super_smoother *)
\* smooth_series[0] = price_series[0]; smooth_series[1] = price_series[1]
\* run with no length test: a series of 0 or 1 samples raises IndexError.
fn_super_smoother_raises(x) == Len(x) < 2

fn_super_smoother(x, period) == ss_loop(x, period, ss_seed(x), 2)

(* ------------------------------ USI_Visualization.py: ultimate_smoother *)
us_c2(period) == b1(period)

us_c3(period) == -FMul(a1(period), a1(period))

us_c1(period) == (Scale + us_c2(period) - us_c3(period)) \div 4

us_value(d, sm, i, period) ==
    FMul(Scale - us_c1(period), At(d, i))
      + FMul(2 * us_c1(period) - us_c2(period), At(d, i - 1))
      - FMul(us_c1(period) + us_c3(period), At(d, i - 2))
      + FMul(us_c2(period), At(sm, i - 1))
      + FMul(us_c3(period), At(sm, i - 2))

us_passthrough_mut(i) == i < 2

\* the indices copied from the input: `data[i] if i < 3 else ...`
us_passthrough(i) == i < 3

RECURSIVE viz_us_loop(_, _, _, _)
viz_us_loop(d, period, sm, i) ==
    IF i >= Len(d) THEN sm
    ELSE viz_us_loop(d, period,
                     [sm EXCEPT ![i + 1] = IF us_passthrough(i) THEN At(d, i)
                                           ELSE us_value(d, sm, i, period)],
                     i + 1)

viz_ultimate_smoother(d, period) == viz_us_loop(d, period, Zeros(Len(d)), 0)

(* --------------------------- Validate_USI_Against_RSI.py: ultimate_smoother *)
RECURSIVE val_us_loop(_, _, _, _)
val_us_loop(d, period, sm, i) ==
    IF i >= Len(d) THEN sm
    ELSE val_us_loop(d, period,
                     [sm EXCEPT ![i + 1] = IF i >= 3 THEN us_value(d, sm, i, period)
                                           ELSE At(d, i)],
                     i + 1)

val_ultimate_smoother(d, period) == val_us_loop(d, period, Zeros(Len(d)), 0)


(* ------------------ Cycle_detector.py: CycleDetector.calculate_cycles *)
\* np.cos(2 * np.pi * k / period), in thousandths: row = period (1..7),
\* column = k mod period
CosTab == << <<1000>>,
             <<1000, -1000>>,
             <<1000, -500, -500>>,
             <<1000, 0, -1000, 0>>,
             <<1000, 309, -809, -809, 309>>,
             <<1000, 500, -500, -1000, -500, 500>>,
             <<1000, 623, -223, -901, -901, -223, 623>> >>

\* np.sin(2 * np.pi * k / period), in thousandths
SinTab == << <<0>>,
             <<0, 0>>,
             <<0, 866, -866>>,
             <<0, 1000, 0, -1000>>,
             <<0, 951, 588, -588, -951>>,
             <<0, 866, 866, 0, -866, -866>>,
             <<0, 782, 975, 434, -434, -975, -782>> >>

cos2pi(k, period) == CosTab[period][(k % period) + 1]

sin2pi(k, period) == SinTab[period][(k % period) + 1]

RECURSIVE DotFrom(_, _, _)
DotFrom(u, v, k) ==
    IF k > Len(u) THEN 0 ELSE FMul(u[k], v[k]) + DotFrom(u, v, k + 1)

\* np.dot(u, v)
Dot(u, v) == DotFrom(u, v, 1)

RECURSIVE MaxAbsFrom(_, _)
MaxAbsFrom(s, k) ==
    IF k > Len(s) THEN 0
    ELSE LET rest == MaxAbsFrom(s, k + 1)
         IN  IF Abs(s[k]) > rest THEN Abs(s[k]) ELSE rest

\* np.max(np.abs(s)) of a non-empty array
MaxAbs(s) == MaxAbsFrom(s, 1)

\* peak = 0.1
InitPeak_mut == Scale \div 100

\* peak = 0.1
InitPeak == Scale \div 10

cc_peak(lp) ==
    LET current_peak == IF Len(lp) > 0 THEN MaxAbs(lp) ELSE 0
    IN  IF current_peak > InitPeak THEN current_peak ELSE InitPeak

cc_signal(lp, peak) ==
    IF peak # 0 THEN [k \in 1..Len(lp) |-> FDiv(lp[k], peak)]
    ELSE Zeros(Len(lp))

cc_not_enough_mut(signal, length) == Len(signal) <= length

\* if len(signal) < self.length: raise ValueError
cc_not_enough(signal, length) == Len(signal) < length

cc_xx_mut(signal, length) == [k \in 1..length |-> At(signal, Len(signal) - 1 - (k - 1))]

\* xx = [signal[length - i - 1] for i in range(length)]
cc_xx(signal, length) == [k \in 1..length |-> At(signal, length - (k - 1) - 1)]

\* self.mu = 1 / self.length
mu(length) == Scale \div length

cc_update_mut(xx, coefficients, length) ==
    LET x_bar == Dot(xx, coefficients)
    IN  [k \in 1..length |->
            coefficients[k] + FMul(FMul(mu(length), At(xx, 0) - x_bar), xx[k])]

\* x_bar = np.dot(xx, coefficients); coefficients += mu * (xx[-1] - x_bar) * xx
cc_update(xx, coefficients, length) ==
    LET x_bar == Dot(xx, coefficients)
    IN  [k \in 1..length |->
            coefficients[k] + FMul(FMul(mu(length), At(xx, length - 1) - x_bar), xx[k])]

RECURSIVE cc_real_from(_, _, _, _)
cc_real_from(coefficients, length, period, k) ==
    IF k > length THEN 0
    ELSE FMul(coefficients[k], cos2pi(k, period))
           + cc_real_from(coefficients, length, period, k + 1)

RECURSIVE cc_imag_from(_, _, _, _)
cc_imag_from(coefficients, length, period, k) ==
    IF k > length THEN 0
    ELSE FMul(coefficients[k], sin2pi(k, period))
           + cc_imag_from(coefficients, length, period, k + 1)

cc_power_val_mut(coefficients, length, period) ==
    LET real_part == cc_real_from(coefficients, length, period, 1)
        imag_part == cc_imag_from(coefficients, length, period, 1)
        denom == FMul(real_part, real_part) + FMul(imag_part, imag_part)
    IN  IF denom # 0 THEN FDiv(Scale \div 10, denom) ELSE 0

cc_power_val_unguarded(coefficients, length, period) ==
    LET real_part == cc_real_from(coefficients, length, period, 1)
        imag_part == cc_imag_from(coefficients, length, period, 1)
        denom == FMul(Scale - real_part, Scale - real_part) + FMul(imag_part, imag_part)
    IN  IF denom # 0 THEN FDiv(Scale \div 10, denom) ELSE Scale \div 10

cc_power_val(coefficients, length, period) ==
    LET real_part == cc_real_from(coefficients, length, period, 1)
        imag_part == cc_imag_from(coefficients, length, period, 1)
        denom == FMul(Scale - real_part, Scale - real_part) + FMul(imag_part, imag_part)
    IN  IF denom # 0 THEN FDiv(Scale \div 10, denom) ELSE 0

cc_scan_stop_mut(upper_bound) == upper_bound + 2

\* range(self.lower_bound, self.upper_bound + 1) stops before this period
cc_scan_stop(upper_bound) == upper_bound + 1

cc_replaces_mut(power_val, max_power) == power_val >= max_power

\* if power_val > max_power
cc_replaces(power_val, max_power) == power_val > max_power

\* the scan loop: period, and the running max_power and dominant_cycle
RECURSIVE cc_scan(_, _, _, _, _, _)
cc_scan(coefficients, length, period, upper_bound, max_power, dominant_cycle) ==
    IF period >= cc_scan_stop(upper_bound) THEN dominant_cycle
    ELSE LET power_val == cc_power_val(coefficients, length, period)
         IN  IF cc_replaces(power_val, max_power)
             THEN cc_scan(coefficients, length, period + 1, upper_bound, power_val, period)
             ELSE cc_scan(coefficients, length, period + 1, upper_bound, max_power,
                          dominant_cycle)

\* the locals of calculate_cycles up to the length test
cc_locals(close_prices, lower_bound, upper_bound) ==
    LET hp == cd_highpass_filter(close_prices, upper_bound)
        lp == cd_super_smoother(hp, lower_bound)
        peak == cc_peak(lp)
    IN  [close_prices |-> close_prices, hp |-> hp, lp |-> lp, peak |-> peak,
         signal |-> cc_signal(lp, peak), xx |-> <<>>, coefficients |-> <<>>]

\* the locals after the window is taken and the one LMS update is done
cc_adapt(l, length) ==
    LET xx == cc_xx(l.signal, length)
    IN  [l EXCEPT !.xx = xx, !.coefficients = cc_update(xx, Zeros(length), length)]

(* --------------------------- Griffiths_predictor.py: griffiths_predictor *)
\* `signal[-1]` needs signal to be an array.  signal = lp[t] / peak has the
\* shape of lp[t]: lp[0] and lp[1] are the int 0 that highpass_filter seeds
\* with ([0] * n), and lp[t] for t >= 2 has the shape of one element of
\* close_prices: a 1-element array for a column, a scalar for a flat list.
gp_subscriptable(kind, t) == kind = "column" /\ t >= 2

\* xx[:-1] = xx[1:]; xx[-1] = v
gp_shift(xx, v) == [k \in 1..Len(xx) |-> IF k < Len(xx) THEN xx[k + 1] ELSE v]

gp_locals_mut(close_prices, length, lower_bound, upper_bound) ==
    LET hp == fn_highpass_filter(close_prices, upper_bound)
    IN  [hp |-> hp,
         lp |-> fn_super_smoother(hp, lower_bound),
         xx |-> Zeros(length),
         coef |-> Zeros(length),
         peak |-> InitPeak,
         peak_updated |-> FALSE,
         predictions |-> Zeros(Len(close_prices)),
         t |-> 0,
         future_signals |-> <<>>,
         i |-> 0]

\* the locals of griffiths_predictor when the in-sample loop is entered
gp_locals(close_prices, length, lower_bound, upper_bound) ==
    LET hp == fn_highpass_filter(close_prices, upper_bound)
    IN  [hp |-> hp,
         lp |-> fn_super_smoother(hp, lower_bound),
         xx |-> Zeros(length),
         coef |-> Zeros(length),
         peak |-> InitPeak,
         peak_updated |-> FALSE,
         predictions |-> Zeros(Len(close_prices)),
         t |-> length,
         future_signals |-> <<>>,
         i |-> 0]

gp_iterate_mut(l, length) ==
    LET lpt == At(l.lp, l.t)
        grows == Abs(lpt) > l.peak
        peak == IF grows THEN Abs(lpt) ELSE l.peak
        signal == IF peak # 0 THEN FDiv(lpt, peak) ELSE 0
        xx == gp_shift(l.xx, signal)
        coef == [k \in 1..length |->
                    l.coef[k] + FMul(FMul(mu(length), signal - Dot(xx, l.coef)), xx[k])]
    IN  [l EXCEPT !.peak = peak,
                  !.peak_updated = l.peak_updated \/ grows,
                  !.xx = xx,
                  !.predictions = [l.predictions EXCEPT ![l.t + 1] = Dot(xx, coef)],
                  !.coef = coef,
                  !.t = l.t + 1]

\* one pass of `for t in range(length, len(lp))`, when signal[-1] succeeds
gp_iterate(l, length) ==
    LET lpt == At(l.lp, l.t)
        grows == Abs(lpt) > l.peak
        peak == IF grows THEN Abs(lpt) ELSE l.peak
        signal == IF peak # 0 THEN FDiv(lpt, peak) ELSE 0
        xx == gp_shift(l.xx, signal)
        prediction == Dot(xx, l.coef)
        error == signal - prediction
    IN  [l EXCEPT !.peak = peak,
                  !.peak_updated = l.peak_updated \/ grows,
                  !.xx = xx,
                  !.predictions = [l.predictions EXCEPT ![l.t + 1] = prediction],
                  !.coef = [k \in 1..length |->
                               l.coef[k] + FMul(FMul(mu(length), error), xx[k])],
                  !.t = l.t + 1]

\* what `signal[-1]` raises on a scalar: a Python float is not subscriptable
\* (TypeError); a numpy scalar (peak was replaced by np.abs(lp[t])) rejects
\* the index (IndexError)
gp_scalar_error(l) ==
    IF l.peak_updated \/ Abs(At(l.lp, l.t)) > l.peak THEN "IndexError" ELSE "TypeError"

gp_forward_mut(l) ==
    LET future_signal == Dot(l.xx, l.coef)
    IN  [l EXCEPT !.future_signals = [l.future_signals EXCEPT ![l.i + 1] = future_signal],
                  !.i = l.i + 1]

\* one pass of `for i in range(bars_fwd)`
gp_forward(l) ==
    LET future_signal == Dot(l.xx, l.coef)
    IN  [l EXCEPT !.future_signals = [l.future_signals EXCEPT ![l.i + 1] = future_signal],
                  !.xx = gp_shift(l.xx, future_signal),
                  !.i = l.i + 1]

(* ------------------------------------------------------------------ calls *)
NoRet == [status |-> "none"]

NoLoc == [t |-> 0]

FilterFns == {"cd.highpass_filter", "fn.highpass_filter",
              "cd.super_smoother", "fn.super_smoother",
              "viz.ultimate_smoother", "val.ultimate_smoother"}

MkCall(fn, kind, vals, period, length, lb, ub, bars) ==
    [fn |-> fn, kind |-> kind, vals |-> vals, period |-> period,
     length |-> length, lower_bound |-> lb, upper_bound |-> ub, bars_fwd |-> bars]

FilterCalls ==
    {MkCall(fn, kind, vals, period, 0, 0, 0, 0) :
        fn \in FilterFns, kind \in Kinds, vals \in PriceLists, period \in Periods}

CycleCalls ==
    {MkCall("calculate_cycles", kind, vals, 0, length, lb, ub, 0) :
        kind \in Kinds, vals \in PriceLists, length \in Lengths,
        lb \in Periods, ub \in Periods}

(* ---------------------------------------------------------------- objects *)
\* heap maps the name of each sequence object to its elements: "arg" is the
\* object the caller passed, the other names are the objects a call builds to
\* return, called by the variable the code binds them to.
CallerHeap(c) ==
    IF c.fn = "val.calculate_usi"
    THEN [arg |-> to_float_list(c.vals), arg2 |-> to_float_list(c.sd)]
    ELSE [arg |-> to_float_list(c.vals)]

NoObjects == <<>>

Obj(name, elems) == name :> elems

\* the heap once the objects of w are built or stored into
Heap(w) ==
    heap' = [o \in DOMAIN heap \cup DOMAIN w |-> IF o \in DOMAIN w THEN w[o] ELSE heap[o]]

\* a call that raises returns no object
OnOk(w) == Heap(IF ret'.status = "ok" THEN w ELSE NoObjects)

\* Cycle_detector.py: data = [float(x) for x in data]
tfl_out == "data"

\* Cycle_detector.py: hp = [0.0] * len(price_series)
cd_hp_out == "hp"

\* Cycle_detector.py: price_series = to_float_list(price_series) is what a
\* series of fewer than 2 samples returns; otherwise ss = [0.0] * len(...)
cd_ss_out(n) == IF n < 2 THEN "price_series" ELSE "ss"

\* High_pass_filter_function.py: highpass_series = [0] * len(price_series)
fn_hp_out == "highpass_series"

\* SuperSmoother_filter_function.py: smooth_series = [0] * len(price_series)
fn_ss_out == "smooth_series"

us_out_mut == "arg"

\* ultimate_smoother: smoothed = np.zeros_like(data)
us_out == "smoothed"

Init ==
    /\ call \in FilterCalls \cup CycleCalls
    /\ pc = "call"
    /\ ret = NoRet
    /\ loc = NoLoc
    /\ heap = CallerHeap(call)

Finish(r, l) ==
    /\ pc = "call"
    /\ pc' = "done"
    /\ ret' = r
    /\ loc' = l
    /\ UNCHANGED call

Returns(r) == Finish(r, NoLoc)

CallCdHighpass ==
    /\ call.fn = "cd.highpass_filter"
    /\ Returns(IF to_float_list_raises(call.kind)
               THEN [status |-> "ValueError"]
               ELSE [status |-> "ok",
                     val |-> cd_highpass_filter(to_float_list(call.vals), call.period)])
    /\ OnOk(Obj(cd_hp_out, ret'.val))

\* No conversion: the elements are used as they come (a column's elements
\* are 1-element arrays, and every step is element-wise).
CallFnHighpass ==
    /\ call.fn = "fn.highpass_filter"
    /\ Returns(IF fn_highpass_raises(call.kind, call.vals)
               THEN [status |-> "TypeError"]
               ELSE [status |-> "ok",
                     val |-> fn_highpass_filter(to_float_list(call.vals), call.period)])
    /\ OnOk(Obj(fn_hp_out, ret'.val))

CallCdSuperSmoother ==
    /\ call.fn = "cd.super_smoother"
    /\ Returns(IF to_float_list_raises(call.kind)
               THEN [status |-> "ValueError"]
               ELSE [status |-> "ok",
                     val |-> cd_super_smoother(to_float_list(call.vals), call.period)])
    /\ OnOk(Obj(cd_ss_out(Len(call.vals)), ret'.val))

CallFnSuperSmoother ==
    /\ call.fn = "fn.super_smoother"
    /\ Returns(IF fn_super_smoother_raises(call.vals)
               THEN [status |-> "IndexError"]
               ELSE [status |-> "ok",
                     val |-> fn_super_smoother(to_float_list(call.vals), call.period)])
    /\ OnOk(Obj(fn_ss_out, ret'.val))

\* data is a float array (np.zeros_like(data) keeps its dtype)
CallVizUltimateSmoother ==
    /\ call.fn = "viz.ultimate_smoother"
    /\ Returns([status |-> "ok",
                val |-> viz_ultimate_smoother(to_float_list(call.vals), call.period)])
    /\ OnOk(Obj(us_out, ret'.val))

CallValUltimateSmoother ==
    /\ call.fn = "val.ultimate_smoother"
    /\ Returns([status |-> "ok",
                val |-> val_ultimate_smoother(to_float_list(call.vals), call.period)])
    /\ OnOk(Obj(us_out, ret'.val))

CallCalculateCycles ==
    /\ call.fn = "calculate_cycles"
    /\ IF to_float_list_raises(call.kind)
       THEN Finish([status |-> "ValueError"], NoLoc)
       ELSE LET l == cc_locals(to_float_list(call.vals), call.lower_bound,
                               call.upper_bound)
            IN  IF cc_not_enough(l.signal, call.length)
                THEN Finish([status |-> "ValueError"], l)
                ELSE LET m == cc_adapt(l, call.length)
                     IN  Finish([status |-> "ok",
                                 dominant_cycle |->
                                     cc_scan(m.coefficients, call.length,
                                             call.lower_bound, call.upper_bound, 0, 0),
                                 close_prices |-> m.close_prices,
                                 hp |-> m.hp,
                                 lp |-> m.lp], m)
    /\ OnOk(Obj("close_prices", ret'.close_prices) @@ Obj(cd_hp_out, ret'.hp)
              @@ Obj(cd_ss_out(Len(call.vals)), ret'.lp))

Next ==
    \/ CallCdHighpass
    \/ CallFnHighpass
    \/ CallCdSuperSmoother
    \/ CallFnSuperSmoother
    \/ CallVizUltimateSmoother
    \/ CallValUltimateSmoother
    \/ CallCalculateCycles

Spec == Init /\ [][Next]_vars

(* ------------------------------------------ highpass_filter, input shapes *)
ShapeCalls ==
    {MkCall("cd.highpass_filter", kind, vals, period, 0, 0, 0, 0) :
        kind \in ShapeKinds, vals \in PriceLists, period \in Periods}
      \cup
    {MkCall("fn.highpass_filter", kind, vals, period, 0, 0, 0, 0) :
        kind \in {"list", "column", "listoflists", "badelem"},
        vals \in PriceLists, period \in Periods}

InitShapes ==
    /\ call \in ShapeCalls
    /\ pc = "call"
    /\ ret = NoRet
    /\ loc = NoLoc
    /\ heap = CallerHeap(call)

NextShapes ==
    \/ CallCdHighpass
    \/ CallFnHighpass

SpecShapes == InitShapes /\ [][NextShapes]_vars

(* -------------------------------------------- griffiths_predictor, by steps *)
GriffithsCalls ==
    {MkCall("griffiths_predictor", kind, vals, 0, length, lb, ub, bars) :
        kind \in Kinds, vals \in PriceLists, length \in Lengths,
        lb \in Periods, ub \in Periods, bars \in 0..MaxBars}

InitGriffiths ==
    /\ call \in {c \in GriffithsCalls : c.lower_bound <= c.upper_bound}
    /\ pc = "call"
    /\ ret = NoRet
    /\ loc = NoLoc
    /\ heap = CallerHeap(call)

\* lines 41-48: the filters and the initial locals; super_smoother raises
\* IndexError on a series of fewer than 2 samples
GpStart ==
    /\ pc = "call"
    /\ call.fn = "griffiths_predictor"
    /\ UNCHANGED call
    /\ IF fn_super_smoother_raises(fn_highpass_filter(to_float_list(call.vals),
                                                      call.upper_bound))
       THEN /\ pc' = "done"
            /\ ret' = [status |-> "IndexError"]
            /\ loc' = loc
            /\ heap' = heap
       ELSE /\ pc' = "loop"
            /\ ret' = ret
            /\ loc' = gp_locals(to_float_list(call.vals), call.length,
                                call.lower_bound, call.upper_bound)
            /\ Heap(Obj("predictions", loc'.predictions))

\* lines 50-62: one pass of the in-sample loop
GpIterate ==
    /\ pc = "loop"
    /\ loc.t < Len(loc.lp)
    /\ UNCHANGED call
    /\ IF gp_subscriptable(call.kind, loc.t)
       THEN /\ pc' = "loop"
            /\ ret' = ret
            /\ loc' = gp_iterate(loc, call.length)
            /\ Heap(Obj("predictions", loc'.predictions))
       ELSE /\ pc' = "done"
            /\ ret' = [status |-> gp_scalar_error(loc)]
            /\ loc' = loc
            /\ heap' = heap

\* line 64: the loop is over; future_signals = np.zeros(bars_fwd)
GpLoopExit ==
    /\ pc = "loop"
    /\ loc.t >= Len(loc.lp)
    /\ pc' = "fwd"
    /\ loc' = [loc EXCEPT !.future_signals = Zeros(call.bars_fwd), !.i = 0]
    /\ UNCHANGED <<call, ret>>
    /\ Heap(Obj("future_signals", loc'.future_signals))

\* lines 65-69: one pass of the forward extrapolation
GpForward ==
    /\ pc = "fwd"
    /\ loc.i < call.bars_fwd
    /\ pc' = "fwd"
    /\ loc' = gp_forward(loc)
    /\ UNCHANGED <<call, ret>>
    /\ Heap(Obj("future_signals", loc'.future_signals))

\* line 71: return predictions, future_signals
GpReturn ==
    /\ pc = "fwd"
    /\ loc.i >= call.bars_fwd
    /\ pc' = "done"
    /\ ret' = [status |-> "ok", predictions |-> loc.predictions,
               future_signals |-> loc.future_signals]
    /\ UNCHANGED <<call, loc, heap>>

NextGriffiths ==
    \/ GpStart
    \/ GpIterate
    \/ GpLoopExit
    \/ GpForward
    \/ GpReturn

SpecGriffiths == InitGriffiths /\ [][NextGriffiths]_vars

(* ------------------------------------------- USI: calculate_su_sd variants *)
\* USI_Visualization.py: np.diff(prices, prepend=prices[0])
viz_prepend_mut(p) == 0

viz_prepend(p) == At(p, 0)

\* the difference taken backwards, prices[i-1] - prices[i]
viz_diff_mut(p) ==
    [k \in 1..Len(p) |-> (IF k = 1 THEN viz_prepend(p) ELSE p[k - 1]) - p[k]]

viz_diff(p) ==
    [k \in 1..Len(p) |-> p[k] - (IF k = 1 THEN viz_prepend(p) ELSE p[k - 1])]

Max(a, b) == IF a >= b THEN a ELSE b

\* su = np.maximum(diff, 0); sd = np.maximum(-diff, 0)
viz_calculate_su_sd(p) ==
    [su |-> [k \in 1..Len(p) |-> Max(viz_diff(p)[k], 0)],
     sd |-> [k \in 1..Len(p) |-> Max(-viz_diff(p)[k], 0)]]

\* Apply_Ultimate_Smoother.py (and the copies in Validate_USI_Against_RSI.py
\* and USI_Visualization_with_Real_World_Stock_data.py): the if / elif loop
\* over range(1, len(prices)) on two zero arrays.
RECURSIVE au_su_sd_loop(_, _, _, _)
au_su_sd_loop(p, su, sd, i) ==
    IF i >= Len(p) THEN [su |-> su, sd |-> sd]
    ELSE IF At(p, i) > At(p, i - 1)
         THEN au_su_sd_loop(p, [su EXCEPT ![i + 1] = At(p, i) - At(p, i - 1)], sd, i + 1)
    ELSE IF At(p, i) < At(p, i - 1)
         THEN au_su_sd_loop(p, su, [sd EXCEPT ![i + 1] = At(p, i - 1) - At(p, i)], i + 1)
    ELSE au_su_sd_loop(p, su, sd, i + 1)

au_calculate_su_sd(p) == au_su_sd_loop(p, Zeros(Len(p)), Zeros(Len(p)), 1)

\* Agents/USI_Calculation_Agent/Apply_Ultimate_Smoother.py: the same loop
ag_calculate_su_sd(p) == au_su_sd_loop(p, Zeros(Len(p)), Zeros(Len(p)), 1)

(* ---------------------------------------------- USI: calculate_usi variants *)
\* the floor 0.01 of the two smoothed strengths
UsiFloor == Scale \div 100

usi_valid_no_sd_floor(u, d) == u + d > 0 /\ u > UsiFloor

usi_valid_sum_only(u, d) == u + d > 0

usi_valid(u, d) == u + d > 0 /\ u > UsiFloor /\ d > UsiFloor

usi_ratio_mut(u, d) == FDiv(u, u + d)

usi_ratio(u, d) == FDiv(u - d, u + d)

\* usi = zeros; usi[i] assigned where the three conditions hold
usi_fill(usu, usd) ==
    [k \in 1..Len(usu) |-> IF usi_valid(usu[k], usd[k]) THEN usi_ratio(usu[k], usd[k]) ELSE 0]

\* USI_Visualization.py: calculate_usi(prices, period)
viz_calculate_usi(p, period) ==
    LET s   == viz_calculate_su_sd(p)
        usu == viz_ultimate_smoother(s.su, period)
        usd == viz_ultimate_smoother(s.sd, period)
    IN  [su |-> s.su, sd |-> s.sd, usu |-> usu, usd |-> usd, usi |-> usi_fill(usu, usd)]

\* Validate_USI_Against_RSI.py: calculate_usi(su, sd, period)
val_calculate_usi(su, sd, period) ==
    LET usu == val_ultimate_smoother(su, period)
        usd == val_ultimate_smoother(sd, period)
    IN  [su |-> su, sd |-> sd, usu |-> usu, usd |-> usd, usi |-> usi_fill(usu, usd)]

\* USI_Visualization_with_Real_World_Stock_data.py: calculate_usi(prices, period)
rw_calculate_usi(p, period) ==
    LET s == au_calculate_su_sd(p)
    IN  val_calculate_usi(s.su, s.sd, period)

(* ------------------------------------------------------------ USI: calls *)
\* the series of the worked example, prices 1..10
RampLen == 10

Ramp == [k \in 1..RampLen |-> k]

UsiSeries == PriceLists \cup {Ramp}

\* strengths handed to calculate_usi(su, sd, period): two arrays of one
\* length, non-negative and never both non-zero at one bar, as calculate_su_sd
\* produces them
RECURSIVE StrengthPairsOf(_)
StrengthPairsOf(n) ==
    IF n = 0 THEN {<<<<>>, <<>>>>}
    ELSE {<<Append(pr[1], ud[1]), Append(pr[2], ud[2])>> :
            pr \in StrengthPairsOf(n - 1),
            ud \in {b \in PriceVals \X PriceVals : b[1] = 0 \/ b[2] = 0}}

StrengthPairs == UNION {StrengthPairsOf(n) : n \in 0..MaxLen}

UsiCall(fn, vals, sd, period) ==
    [fn |-> fn, kind |-> "array1d", vals |-> vals, sd |-> sd, period |-> period]

UsiCalls ==
    {UsiCall(fn, vals, <<>>, 0) :
        fn \in {"viz.calculate_su_sd", "au.calculate_su_sd", "ag.calculate_su_sd"},
        vals \in UsiSeries}
      \cup
    {UsiCall(fn, vals, <<>>, period) :
        fn \in {"viz.calculate_usi", "rw.calculate_usi"},
        vals \in UsiSeries, period \in Periods}
      \cup
    {UsiCall("val.calculate_usi", pr[1], pr[2], period) :
        pr \in StrengthPairs, period \in Periods}

InitUsi ==
    /\ call \in UsiCalls
    /\ pc = "call"
    /\ ret = NoRet
    /\ loc = NoLoc
    /\ heap = CallerHeap(call)

CallVizSuSd ==
    /\ call.fn = "viz.calculate_su_sd"
    /\ Returns(IF Len(call.vals) = 0 THEN [status |-> "ValueError"]
               ELSE LET s == viz_calculate_su_sd(to_float_list(call.vals))
                    IN  [status |-> "ok", su |-> s.su, sd |-> s.sd])
    /\ OnOk(Obj("su", ret'.su) @@ Obj("sd", ret'.sd))

CallAuSuSd ==
    /\ call.fn = "au.calculate_su_sd"
    /\ LET s == au_calculate_su_sd(to_float_list(call.vals))
       IN  Returns([status |-> "ok", su |-> s.su, sd |-> s.sd])
    /\ OnOk(Obj("su", ret'.su) @@ Obj("sd", ret'.sd))

CallAgSuSd ==
    /\ call.fn = "ag.calculate_su_sd"
    /\ LET s == ag_calculate_su_sd(to_float_list(call.vals))
       IN  Returns([status |-> "ok", su |-> s.su, sd |-> s.sd])
    /\ OnOk(Obj("su", ret'.su) @@ Obj("sd", ret'.sd))

UsiResult(r) ==
    Finish([status |-> "ok", val |-> r.usi],
           [su |-> r.su, sd |-> r.sd, usu |-> r.usu, usd |-> r.usd])

CallVizUsi ==
    /\ call.fn = "viz.calculate_usi"
    /\ IF Len(call.vals) = 0 THEN Returns([status |-> "ValueError"])
       ELSE UsiResult(viz_calculate_usi(to_float_list(call.vals), call.period))
    /\ OnOk(Obj("usi", ret'.val))

CallRwUsi ==
    /\ call.fn = "rw.calculate_usi"
    /\ UsiResult(rw_calculate_usi(to_float_list(call.vals), call.period))
    /\ OnOk(Obj("usi", ret'.val))

CallValUsi ==
    /\ call.fn = "val.calculate_usi"
    /\ UsiResult(val_calculate_usi(to_float_list(call.vals), to_float_list(call.sd),
                                   call.period))
    /\ OnOk(Obj("usi", ret'.val))

NextUsi ==
    \/ CallVizSuSd
    \/ CallAuSuSd
    \/ CallAgSuSd
    \/ CallVizUsi
    \/ CallRwUsi
    \/ CallValUsi

SpecUsi == InitUsi /\ [][NextUsi]_vars

(* ---------------------------------- Two_pole_predictor.py: two_pole_predictor *)
\* hp = highpass_filter(price_series, 15); lp = super_smoother(hp, 30)
tp_hp_period == 15

tp_lp_period == 30

\* c0 = 1; c1 = 1.8 * q; c2 = -q * q; each divided by 1 - c1 - c2
\* sum_coeffs = 1 - c1 + c2, the sign of c2 lost
tp_sum_coeffs_mut(q) == Scale - FMul((18 * Scale) \div 10, q) - FMul(q, q)

tp_sum_coeffs(q) == Scale - FMul((18 * Scale) \div 10, q) + FMul(q, q)

tp_c0(q) == FDiv(Scale, tp_sum_coeffs(q))

tp_c1(q) == FDiv(FMul((18 * Scale) \div 10, q), tp_sum_coeffs(q))

tp_c2(q) == FDiv(-FMul(q, q), tp_sum_coeffs(q))

\* predicted[i] with the last tap added instead of subtracted
tp_predicted_mut(lp, q) ==
    [k \in 1..Len(lp) |->
        IF k < 3 THEN 0
        ELSE FMul(FDiv(Scale, Scale - FMul((18 * Scale) \div 10, q) + FMul(q, q)), lp[k])
             - FMul(FDiv(FMul((18 * Scale) \div 10, q),
                         Scale - FMul((18 * Scale) \div 10, q) + FMul(q, q)), lp[k - 1])
             + FMul(FDiv(-FMul(q, q),
                         Scale - FMul((18 * Scale) \div 10, q) + FMul(q, q)), lp[k - 2])]

\* predicted = [0] * n; predicted[i] for i in range(2, n)
tp_predicted(lp, q) ==
    [k \in 1..Len(lp) |->
        IF k < 3 THEN 0
        ELSE FMul(tp_c0(q), lp[k]) - FMul(tp_c1(q), lp[k - 1]) - FMul(tp_c2(q), lp[k - 2])]

two_pole_predictor(price_series, q) ==
    tp_predicted(fn_super_smoother(fn_highpass_filter(price_series, tp_hp_period),
                                   tp_lp_period), q)

\* the locals of two_pole_predictor at its return
tp_locals(price_series, q) ==
    LET hp == fn_highpass_filter(price_series, tp_hp_period)
    IN  [hp |-> hp,
         lp |-> fn_super_smoother(hp, tp_lp_period),
         sum_coeffs |-> tp_sum_coeffs(q),
         c0 |-> tp_c0(q), c1 |-> tp_c1(q), c2 |-> tp_c2(q)]

(* ----------------------------------------- every operation, and the objects *)
\* the values of q drawn: 0, 0.5 and 0.9
Qs == {0, Scale \div 2, (9 * Scale) \div 10}

TwoPoleCalls ==
    {[fn |-> "two_pole_predictor", kind |-> kind, vals |-> vals, q |-> q] :
        kind \in Kinds, vals \in PriceLists, q \in Qs}

ToFloatListCalls ==
    {[fn |-> "to_float_list", kind |-> kind, vals |-> vals] :
        kind \in ShapeKinds, vals \in PriceLists}

SuSdCalls ==
    {UsiCall(fn, vals, <<>>, 0) :
        fn \in {"viz.calculate_su_sd", "au.calculate_su_sd"}, vals \in PriceLists}

\* one band and one horizon per window length are enough here: which object
\* a store addresses does not depend on them
FrameCalls ==
    ToFloatListCalls \cup FilterCalls \cup SuSdCalls
        \cup {c \in CycleCalls : c.lower_bound = c.upper_bound}
        \cup {c \in GriffithsCalls : /\ c.lower_bound = c.length
                                      /\ c.upper_bound = c.length
                                      /\ c.bars_fwd = MaxBars}
        \cup TwoPoleCalls

InitFrame ==
    /\ call \in FrameCalls
    /\ pc = "call"
    /\ ret = NoRet
    /\ loc = NoLoc
    /\ heap = CallerHeap(call)

CallToFloatList ==
    /\ call.fn = "to_float_list"
    /\ Returns(IF to_float_list_raises(call.kind)
               THEN [status |-> "ValueError"]
               ELSE [status |-> "ok", val |-> to_float_list(call.vals)])
    /\ OnOk(Obj(tfl_out, ret'.val))

\* super_smoother raises IndexError on fewer than 2 samples
CallTwoPole ==
    /\ call.fn = "two_pole_predictor"
    /\ IF fn_super_smoother_raises(call.vals)
       THEN Returns([status |-> "IndexError"])
       ELSE Finish([status |-> "ok",
                    val |-> two_pole_predictor(to_float_list(call.vals), call.q)],
                   tp_locals(to_float_list(call.vals), call.q))
    /\ OnOk(Obj("predicted", ret'.val))

NextFrame ==
    \/ CallToFloatList
    \/ CallCdHighpass
    \/ CallFnHighpass
    \/ CallCdSuperSmoother
    \/ CallFnSuperSmoother
    \/ CallVizUltimateSmoother
    \/ CallValUltimateSmoother
    \/ CallVizSuSd
    \/ CallAuSuSd
    \/ CallCalculateCycles
    \/ GpStart
    \/ GpIterate
    \/ GpLoopExit
    \/ GpForward
    \/ GpReturn
    \/ CallTwoPole

SpecFrame == InitFrame /\ [][NextFrame]_vars

(* ------------------------------------------------ whole calls, run alone *)
RECURSIVE gp_run_loop(_, _, _)
gp_run_loop(l, kind, length) ==
    IF l.t >= Len(l.lp) THEN [status |-> "ok", loc |-> l]
    ELSE IF gp_subscriptable(kind, l.t) THEN gp_run_loop(gp_iterate(l, length), kind, length)
    ELSE [status |-> gp_scalar_error(l), loc |-> l]

RECURSIVE gp_run_forward(_, _)
gp_run_forward(l, bars_fwd) ==
    IF l.i >= bars_fwd THEN l ELSE gp_run_forward(gp_forward(l), bars_fwd)

\* griffiths_predictor(close_prices, length, lower_bound, upper_bound, bars_fwd)
griffiths_predictor(kind, close_prices, length, lower_bound, upper_bound, bars_fwd) ==
    IF fn_super_smoother_raises(close_prices) THEN [status |-> "IndexError"]
    ELSE LET r == gp_run_loop(gp_locals(close_prices, length, lower_bound, upper_bound),
                              kind, length)
         IN  IF r.status # "ok" THEN [status |-> r.status]
             ELSE LET l == gp_run_forward([r.loc EXCEPT !.future_signals = Zeros(bars_fwd),
                                                        !.i = 0], bars_fwd)
                  IN  [status |-> "ok", predictions |-> l.predictions,
                       future_signals |-> l.future_signals]

\* CycleDetector(..., lower_bound, upper_bound, length).calculate_cycles(close_prices)
calculate_cycles(kind, close_prices, length, lower_bound, upper_bound) ==
    IF to_float_list_raises(kind) THEN [status |-> "ValueError"]
    ELSE LET l == cc_locals(close_prices, lower_bound, upper_bound)
         IN  IF cc_not_enough(l.signal, length) THEN [status |-> "ValueError"]
             ELSE LET m == cc_adapt(l, length)
                  IN  [status |-> "ok",
                       dominant_cycle |-> cc_scan(m.coefficients, length, lower_bound,
                                                  upper_bound, 0, 0),
                       close_prices |-> m.close_prices, hp |-> m.hp, lp |-> m.lp]

(* --------------------------------------------------- two calls interleaved *)
\* In this specification call, pc, ret and loc hold one entry per thread, and
\* heap holds what the threads share: the fields of the CycleDetector
\* instances and the module-level names.
Threads == 1..2

\* __init__: self.lower_bound, self.upper_bound, self.length
Detectors ==
    [d1 |-> [length |-> 2, lower_bound |-> 1, upper_bound |-> MaxPeriod],
     d2 |-> [length |-> MaxPeriod, lower_bound |-> 2, upper_bound |-> 2]]

\* no module of the pipeline binds a name that a call assigns
ModuleState == [peak |-> InitPeak]

Shared == [detector |-> Detectors, module |-> ModuleState]

\* series of MaxLen samples that differ in their last two
ConcSeries ==
    {s \in PriceLists : /\ Len(s) = MaxLen
                        /\ \A k \in 1..(MaxLen - 2) : s[k] = (k - 1) % 2
                        /\ \A k \in (MaxLen - 1)..MaxLen : s[k] # 1}

ConcCalls ==
    {[fn |-> "calculate_cycles", kind |-> "list", vals |-> vals, inst |-> d] :
        vals \in ConcSeries, d \in DOMAIN Detectors}
      \cup
    {MkCall("griffiths_predictor", "column", vals, 0, 2, 1, MaxPeriod, 1) :
        vals \in ConcSeries}
      \cup
    {[fn |-> "two_pole_predictor", kind |-> "list", vals |-> vals, q |-> Scale \div 2] :
        vals \in ConcSeries}

InitConc ==
    /\ call \in [Threads -> ConcCalls]
    /\ pc = [t \in Threads |-> "call"]
    /\ ret = [t \in Threads |-> NoRet]
    /\ loc = [t \in Threads |-> NoLoc]
    /\ heap = Shared

\* thread t moves to p with result r and locals l; the shared state becomes h
Step(t, p, r, l, h) ==
    /\ pc' = [pc EXCEPT ![t] = p]
    /\ ret' = [ret EXCEPT ![t] = r]
    /\ loc' = [loc EXCEPT ![t] = l]
    /\ heap' = h
    /\ UNCHANGED call

Self(t) == heap.detector[call[t].inst]

\* calculate_cycles, lines 111-129: filters, peak, signal, the length test
ConcCcStart ==
    \E t \in Threads :
        /\ pc[t] = "call"
        /\ call[t].fn = "calculate_cycles"
        /\ LET l == cc_locals(to_float_list(call[t].vals), Self(t).lower_bound,
                              Self(t).upper_bound)
           IN  IF cc_not_enough(l.signal, Self(t).length)
               THEN Step(t, "done", [status |-> "ValueError"], l, heap)
               ELSE Step(t, "scan", NoRet, l, heap)

\* calculate_cycles, lines 131-156: window, update, scan, return
ConcCcScan ==
    \E t \in Threads :
        /\ pc[t] = "scan"
        /\ LET m == cc_adapt(loc[t], Self(t).length)
           IN  Step(t, "done",
                    [status |-> "ok",
                     dominant_cycle |-> cc_scan(m.coefficients, Self(t).length,
                                                Self(t).lower_bound, Self(t).upper_bound,
                                                0, 0),
                     close_prices |-> m.close_prices, hp |-> m.hp, lp |-> m.lp],
                    m, heap)

ConcGpStart ==
    \E t \in Threads :
        /\ pc[t] = "call"
        /\ call[t].fn = "griffiths_predictor"
        /\ IF fn_super_smoother_raises(call[t].vals)
           THEN Step(t, "done", [status |-> "IndexError"], loc[t], heap)
           ELSE Step(t, "loop", NoRet,
                     gp_locals(to_float_list(call[t].vals), call[t].length,
                               call[t].lower_bound, call[t].upper_bound), heap)

gp_conc_iterate_mut(l, shared, length) ==
    LET m == gp_iterate([l EXCEPT !.peak = shared.module.peak], length)
    IN  [loc |-> m, shared |-> [shared EXCEPT !.module.peak = m.peak]]

\* one pass of the in-sample loop: peak, xx, coef and predictions are locals
\* of the call, and nothing shared is read or written
gp_conc_iterate(l, shared, length) == [loc |-> gp_iterate(l, length), shared |-> shared]

ConcGpIterate ==
    \E t \in Threads :
        /\ pc[t] = "loop"
        /\ loc[t].t < Len(loc[t].lp)
        /\ IF gp_subscriptable(call[t].kind, loc[t].t)
           THEN LET s == gp_conc_iterate(loc[t], heap, call[t].length)
                IN  Step(t, "loop", NoRet, s.loc, s.shared)
           ELSE Step(t, "done", [status |-> gp_scalar_error(loc[t])], loc[t], heap)

ConcGpLoopExit ==
    \E t \in Threads :
        /\ pc[t] = "loop"
        /\ loc[t].t >= Len(loc[t].lp)
        /\ Step(t, "fwd", NoRet,
                [loc[t] EXCEPT !.future_signals = Zeros(call[t].bars_fwd), !.i = 0], heap)

ConcGpForward ==
    \E t \in Threads :
        /\ pc[t] = "fwd"
        /\ loc[t].i < call[t].bars_fwd
        /\ Step(t, "fwd", NoRet, gp_forward(loc[t]), heap)

ConcGpReturn ==
    \E t \in Threads :
        /\ pc[t] = "fwd"
        /\ loc[t].i >= call[t].bars_fwd
        /\ Step(t, "done",
                [status |-> "ok", predictions |-> loc[t].predictions,
                 future_signals |-> loc[t].future_signals], loc[t], heap)

ConcTwoPole ==
    \E t \in Threads :
        /\ pc[t] = "call"
        /\ call[t].fn = "two_pole_predictor"
        /\ Step(t, "done",
                IF fn_super_smoother_raises(call[t].vals)
                THEN [status |-> "IndexError"]
                ELSE [status |-> "ok",
                      val |-> two_pole_predictor(to_float_list(call[t].vals), call[t].q)],
                NoLoc, heap)

NextConc ==
    \/ ConcCcStart
    \/ ConcCcScan
    \/ ConcGpStart
    \/ ConcGpIterate
    \/ ConcGpLoopExit
    \/ ConcGpForward
    \/ ConcGpReturn
    \/ ConcTwoPole

SpecConc == InitConc /\ [][NextConc]_vars

\* what the call c returns when it runs with no other call
Alone(c) ==
    CASE c.fn = "calculate_cycles" ->
            calculate_cycles(c.kind, to_float_list(c.vals), Detectors[c.inst].length,
                             Detectors[c.inst].lower_bound, Detectors[c.inst].upper_bound)
      [] c.fn = "griffiths_predictor" ->
            griffiths_predictor(c.kind, to_float_list(c.vals), c.length, c.lower_bound,
                                c.upper_bound, c.bars_fwd)
      [] c.fn = "two_pole_predictor" ->
            [status |-> "ok", val |-> two_pole_predictor(to_float_list(c.vals), c.q)]

(* ------------------------- calculate_cycles: the power of one scanned period *)
\* The body of the scan loop (lines 141-145) applied to coefficient vectors
\* drawn from a set, for the denominators the vectors calculate_cycles itself
\* builds never produce.
CoefVals == {-Scale, 0, Scale}

RECURSIVE CoefVectors(_)
CoefVectors(n) ==
    IF n = 0 THEN {<<>>}
    ELSE {Append(c, v) : c \in CoefVectors(n - 1), v \in CoefVals}

PowerCalls ==
    {[fn |-> "scan.power", kind |-> "array1d", vals |-> <<>>,
      coefficients |-> c, length |-> length, period |-> period] :
        length \in Lengths, c \in UNION {CoefVectors(n) : n \in Lengths}, period \in Periods}

InitPower ==
    /\ call \in {c \in PowerCalls : Len(c.coefficients) = c.length}
    /\ pc = "call"
    /\ ret = NoRet
    /\ loc = NoLoc
    /\ heap = CallerHeap(call)

\* real_part, imag_part, denom, power_val of one period
CallPower ==
    /\ call.fn = "scan.power"
    /\ Returns([status |-> "ok",
                val |-> cc_power_val(call.coefficients, call.length, call.period)])
    /\ heap' = heap

NextPower == CallPower

SpecPower == InitPower /\ [][NextPower]_vars

(* ------------------------- griffiths_predictor by steps, on a small call set *)
\* one band per window length; no forecast and the longest forecast
PredictorCalls ==
    {c \in GriffithsCalls : /\ c.lower_bound = c.length
                            /\ c.upper_bound = MaxPeriod
                            /\ c.bars_fwd \in {0, MaxBars}}

InitPredictor ==
    /\ call \in PredictorCalls
    /\ pc = "call"
    /\ ret = NoRet
    /\ loc = NoLoc
    /\ heap = CallerHeap(call)

SpecPredictor == InitPredictor /\ [][NextGriffiths]_vars

(* ------------------------------------------------- two_pole_predictor alone *)
\* q in tenths of a unit, from -MaxQ/10 to MaxQ/10: q is not validated
MaxQ == 20

TpQs == {k * (Scale \div 10) : k \in (-MaxQ)..MaxQ}

\* short histories, and histories long enough for every tap to meet a
\* non-zero lp sample
TpSeries ==
    {s \in PriceLists : Len(s) <= 2}
        \cup {s \o <<3, 0>> : s \in {v \in PriceLists : Len(v) = MaxLen /\ v[1] = 0}}

TpCalls ==
    {[fn |-> "two_pole_predictor", kind |-> "list", vals |-> vals, q |-> q] :
        vals \in TpSeries, q \in TpQs}

InitTwoPole ==
    /\ call \in TpCalls
    /\ pc = "call"
    /\ ret = NoRet
    /\ loc = NoLoc
    /\ heap = CallerHeap(call)

NextTwoPole == CallTwoPole

SpecTwoPole == InitTwoPole /\ [][NextTwoPole]_vars

(* ------------------------------------------------------- PortfolioDataAgent *)
\* One agent and the calls made on it so far: call is the sequence of the
\* calls, ret the value the last one returned, heap the agent's attribute.
MaxCalls == 4

UserIds == {7, 12345}

\* self.portfolio_data = {}
EmptyDict == [k \in {} |-> 0]

IntVal(v) == [type |-> "int", val |-> v]

\* float(x)
Float(x) == [type |-> "float", val |-> x.val]

\* str.upper on the symbols that occur
Upper(s) ==
    CASE s = "aapl" -> "AAPL"
      [] s = "googl" -> "GOOGL"
      [] s = "tsla" -> "TSLA"
      [] OTHER -> s

\* the dictionary fetch_portfolio_data stores
FetchedData(user_id) ==
    [user_id |-> user_id,
     holdings |-> << [symbol |-> "AAPL", quantity |-> IntVal(10), purchase_price |-> IntVal(150)],
                     [symbol |-> "GOOGL", quantity |-> IntVal(5), purchase_price |-> IntVal(2800)],
                     [symbol |-> "TSLA", quantity |-> IntVal(8), purchase_price |-> IntVal(700)] >>]

\* self.portfolio_data.get("holdings", [])
GetHoldings(d) == IF "holdings" \in DOMAIN d THEN d["holdings"] ELSE <<>>

\* self.portfolio_data["holdings"] = v
SetHoldings(d, v) ==
    [k \in DOMAIN d \cup {"holdings"} |-> IF k = "holdings" THEN v ELSE d[k]]

RequiredKeys == {"symbol", "quantity", "purchase_price"}

validate_portfolio_data(d) ==
    IF DOMAIN d = {} THEN <<FALSE, "No portfolio data found.">>
    ELSE IF \E i \in 1..Len(GetHoldings(d)) :
               ~(RequiredKeys \subseteq DOMAIN GetHoldings(d)[i])
         THEN <<FALSE, "Incomplete portfolio data.">>
         ELSE <<TRUE, "Portfolio data is valid.">>

normalized_data(d) ==
    [i \in 1..Len(GetHoldings(d)) |->
        [symbol |-> Upper(GetHoldings(d)[i].symbol),
         quantity |-> Float(GetHoldings(d)[i].quantity),
         purchase_price |-> Float(GetHoldings(d)[i].purchase_price)]]

normalize_portfolio_data(d) == SetHoldings(d, normalized_data(d))

map_data_to_agents(d) == [tax_analysis |-> d, signal_analysis |-> d]

InitPortfolio ==
    /\ call = <<>>
    /\ pc = "call"
    /\ ret = NoRet
    /\ loc = NoLoc
    /\ heap = [portfolio_data |-> EmptyDict]

\* a method call on the agent, from entry to return
AgentCall(c, r, d) ==
    /\ call' = Append(call, c)
    /\ pc' = "done"
    /\ ret' = [status |-> "ok", val |-> r]
    /\ loc' = NoLoc
    /\ heap' = [portfolio_data |-> d]

FetchPortfolioData ==
    /\ Len(call) < MaxCalls
    /\ \E user_id \in UserIds :
          AgentCall([fn |-> "fetch_portfolio_data", user_id |-> user_id],
                    FetchedData(user_id), FetchedData(user_id))

ValidatePortfolioData ==
    /\ Len(call) < MaxCalls
    /\ AgentCall([fn |-> "validate_portfolio_data"],
                 validate_portfolio_data(heap.portfolio_data), heap.portfolio_data)

NormalizePortfolioData ==
    /\ Len(call) < MaxCalls
    /\ AgentCall([fn |-> "normalize_portfolio_data"],
                 normalize_portfolio_data(heap.portfolio_data),
                 normalize_portfolio_data(heap.portfolio_data))

MapDataToAgents ==
    /\ Len(call) < MaxCalls
    /\ AgentCall([fn |-> "map_data_to_agents"],
                 map_data_to_agents(heap.portfolio_data), heap.portfolio_data)

NextPortfolio ==
    \/ FetchPortfolioData
    \/ ValidatePortfolioData
    \/ NormalizePortfolioData
    \/ MapDataToAgents

SpecPortfolio == InitPortfolio /\ [][NextPortfolio]_vars

(* ------------------------------------------------------------------ claims *)
Done(fn) == pc = "done" /\ call.fn = fn

N == Len(call.vals)

X == to_float_list(call.vals)

\* C1: a calculate_cycles call that returns a result returns a dominant_cycle
\* that is 0 or a period of lower_bound..upper_bound.
C1_DominantInBand ==
    (Done("calculate_cycles") /\ ret.status = "ok")
        => \/ ret.dominant_cycle = 0
           \/ ret.dominant_cycle \in call.lower_bound..call.upper_bound

C1_Witness ==
    /\ Done("calculate_cycles")
    /\ ret.status = "ok"
    /\ N > call.length
    /\ ~AllZero(ret.lp)
    /\ call.lower_bound < call.upper_bound
    /\ ret.dominant_cycle \in call.lower_bound..call.upper_bound

\* C2: calculate_cycles on a flat price list raises ValueError and returns
\* nothing exactly when the series has fewer than `length` samples (0
\* included), and returns a result exactly when it has at least `length`.
C2_InsufficientHistory ==
    (Done("calculate_cycles") /\ call.kind = "list")
        => /\ (N < call.length) <=> (ret.status = "ValueError")
           /\ (N >= call.length) <=> (ret.status = "ok")

C2_Witness ==
    /\ Done("calculate_cycles")
    /\ call.kind = "list"
    /\ 0 < N
    /\ N < call.length
    /\ ret.status = "ValueError"

\* C3 as stated: an all-zero series of at least `length` samples yields
\* dominant_cycle = 0.
C3_AllZeroGivesZero ==
    (Done("calculate_cycles") /\ call.kind = "list" /\ AllZero(call.vals)
       /\ N >= call.length)
        => (ret.status = "ok" /\ ret.dominant_cycle = 0)

\* C3 amended: an all-zero series of at least `length` samples yields
\* dominant_cycle = lower_bound when the band lower_bound..upper_bound is not
\* empty (every period has the power 0.1 > 0 and the first one is kept), and
\* 0 only when the band is empty.
C3_AllZeroGivesLowerBound ==
    (Done("calculate_cycles") /\ call.kind = "list" /\ AllZero(call.vals)
       /\ N >= call.length)
        => /\ ret.status = "ok"
           /\ ret.dominant_cycle = IF call.lower_bound <= call.upper_bound
                                   THEN call.lower_bound ELSE 0

C3_Witness ==
    /\ Done("calculate_cycles")
    /\ call.kind = "list"
    /\ AllZero(call.vals)
    /\ N >= call.length
    /\ N >= 3
    /\ call.lower_bound < call.upper_bound
    /\ ret.status = "ok"
    /\ ret.dominant_cycle = call.lower_bound

\* C4 as stated: for a signal of N >= length samples the window xx holds the
\* most recent `length` samples, newest first: xx[i] = signal[N - 1 - i].
C4_WindowIsMostRecent ==
    (Done("calculate_cycles") /\ ret.status = "ok")
        => \A i \in 0..(call.length - 1) :
              At(loc.xx, i) = At(loc.signal, N - 1 - i)

\* C6: both highpass_filter implementations return, for a flat series of n
\* samples, n samples of which the first two are 0 (all are 0 when n < 3), and
\* for i >= 2  out[i] = c1*(x[i] - 2*x[i-1] + x[i-2]) + c2*out[i-1] + c3*out[i-2].
C6_HighpassShape ==
    ((Done("cd.highpass_filter") \/ Done("fn.highpass_filter")) /\ call.kind = "list")
        => /\ ret.status = "ok"
           /\ Len(ret.val) = N
           /\ \A i \in 0..(N - 1) : (i < 2 \/ N < 3) => At(ret.val, i) = 0
           /\ \A i \in 2..(N - 1) :
                 At(ret.val, i) =
                     FMul((Scale + b1(call.period)) \div 4,
                          At(X, i) - 2 * At(X, i - 1) + At(X, i - 2))
                       + FMul(b1(call.period), At(ret.val, i - 1))
                       + FMul(-FMul(a1(call.period), a1(call.period)), At(ret.val, i - 2))

C6_Witness ==
    /\ Done("cd.highpass_filter")
    /\ call.kind = "list"
    /\ N >= 4
    /\ At(X, 0) # 0
    /\ At(ret.val, 0) = 0
    /\ At(ret.val, 2) # 0
    /\ At(ret.val, 3) # 0

\* C7: both super_smoother implementations return, for a flat series of
\* n >= 2 samples, n samples with out[0] = in[0], out[1] = in[1], and for
\* i >= 2  out[i] = c1*(x[i] + x[i-1])/2 + c2*out[i-1] + c3*out[i-2].
C7_SuperSmootherShape ==
    ((Done("cd.super_smoother") \/ Done("fn.super_smoother")) /\ call.kind = "list"
       /\ N >= 2)
        => /\ ret.status = "ok"
           /\ Len(ret.val) = N
           /\ At(ret.val, 0) = At(X, 0)
           /\ At(ret.val, 1) = At(X, 1)
           /\ \A i \in 2..(N - 1) :
                 At(ret.val, i) =
                     (FMul(Scale - b1(call.period) + FMul(a1(call.period), a1(call.period)),
                           At(X, i) + At(X, i - 1)) \div 2)
                       + FMul(b1(call.period), At(ret.val, i - 1))
                       + FMul(-FMul(a1(call.period), a1(call.period)), At(ret.val, i - 2))

C7_Witness ==
    /\ Done("fn.super_smoother")
    /\ call.kind = "list"
    /\ N >= 4
    /\ ret.status = "ok"
    /\ At(ret.val, 0) # 0
    /\ At(ret.val, 1) # 0
    /\ At(ret.val, 1) # At(ret.val, 0)
    /\ At(ret.val, 3) # 0

\* C8 as stated: every super_smoother implementation returns a series of 0 or
\* 1 samples unchanged and raises nothing.
C8_ShortSeriesUnchanged ==
    ((Done("cd.super_smoother") \/ Done("fn.super_smoother")) /\ call.kind = "list"
       /\ N < 2)
        => (ret.status = "ok" /\ ret.val = X)

\* C9: both ultimate_smoother implementations return a series of the length
\* of the input whose entries 0, 1 and 2 are the input's, and for i >= 3
\* out[i] = (1-c1)*x[i] + (2*c1-c2)*x[i-1] - (c1+c3)*x[i-2] + c2*out[i-1] + c3*out[i-2].
C9_UltimateSmootherBoundary ==
    (Done("viz.ultimate_smoother") \/ Done("val.ultimate_smoother"))
        => LET c2 == b1(call.period)
               c3 == -FMul(a1(call.period), a1(call.period))
               c1 == (Scale + c2 - c3) \div 4
           IN  /\ ret.status = "ok"
               /\ Len(ret.val) = N
               /\ \A i \in 0..(N - 1) : i < 3 => At(ret.val, i) = At(X, i)
               /\ \A i \in 3..(N - 1) :
                     At(ret.val, i) =
                         FMul(Scale - c1, At(X, i))
                           + FMul(2 * c1 - c2, At(X, i - 1))
                           - FMul(c1 + c3, At(X, i - 2))
                           + FMul(c2, At(ret.val, i - 1))
                           + FMul(c3, At(ret.val, i - 2))

C9_Witness ==
    /\ Done("viz.ultimate_smoother")
    /\ N >= 4
    /\ At(ret.val, 2) = At(X, 2)
    /\ At(X, 2) # 0
    /\ At(ret.val, 3) # At(X, 3)

\* C10: for a constant price series (all-zero included) of any length and any
\* period, highpass_filter returns all zeros, super_smoother of an all-zero
\* series is all-zero, and so the hp and lp series of the pipeline are
\* identically zero.
C10_ConstantSeriesFiltersToZero ==
    /\ ((Done("cd.highpass_filter") \/ Done("fn.highpass_filter"))
          /\ call.kind = "list" /\ IsConstant(call.vals))
         => (ret.status = "ok" /\ AllZero(ret.val) /\ Len(ret.val) = N)
    /\ (Done("cd.super_smoother") /\ call.kind = "list" /\ AllZero(call.vals))
         => (ret.status = "ok" /\ AllZero(ret.val) /\ Len(ret.val) = N)
    /\ (Done("calculate_cycles") /\ call.kind = "list" /\ IsConstant(call.vals))
         => /\ Len(loc.hp) = N /\ AllZero(loc.hp)
            /\ Len(loc.lp) = N /\ AllZero(loc.lp)

C10_Witness ==
    /\ Done("calculate_cycles")
    /\ call.kind = "list"
    /\ IsConstant(call.vals)
    /\ N >= 4
    /\ At(call.vals, 0) # 0
    /\ ret.status = "ok"
    /\ AllZero(ret.hp)
    /\ AllZero(ret.lp)

\* C5 as stated, for the case it singles out: for a flat price series of n
\* samples with n > length (the in-sample loop runs at least once),
\* griffiths_predictor returns (predictions, future_signals) with n and
\* bars_fwd entries.
C5_GriffithsLoopReturns ==
    (Done("griffiths_predictor") /\ call.kind = "list" /\ N > call.length /\ N >= 2)
        => /\ ret.status = "ok"
           /\ Len(ret.predictions) = N
           /\ Len(ret.future_signals) = call.bars_fwd

\* C11 as stated: highpass_filter raises, and returns no filtered output, on
\* every input that is multi-dimensional, empty after flattening, or holds an
\* element that is no real number.
C11_HighpassRejectsBadInput ==
    ((Done("cd.highpass_filter") \/ Done("fn.highpass_filter"))
       /\ (call.kind \in MalformedKinds \/ N = 0))
        => ret.status # "ok"

\* C12: for every non-empty price series calculate_su_sd returns su and sd of
\* the input's length with su[0] = sd[0] = 0 and, for i >= 1,
\* su[i] = max(price[i] - price[i-1], 0) and sd[i] = max(price[i-1] - price[i], 0);
\* both are non-negative, at most one of su[i], sd[i] is non-zero, and sd is
\* identically zero on a non-decreasing series.
C12_StrengthFormulas ==
    ((Done("viz.calculate_su_sd") \/ Done("au.calculate_su_sd")) /\ N >= 1)
        => /\ ret.status = "ok"
           /\ Len(ret.su) = N /\ Len(ret.sd) = N
           /\ ret.su[1] = 0 /\ ret.sd[1] = 0
           /\ \A k \in 2..N :
                /\ ret.su[k] = (IF X[k] - X[k - 1] > 0 THEN X[k] - X[k - 1] ELSE 0)
                /\ ret.sd[k] = (IF X[k - 1] - X[k] > 0 THEN X[k - 1] - X[k] ELSE 0)
           /\ \A k \in 1..N :
                /\ ret.su[k] >= 0 /\ ret.sd[k] >= 0
                /\ ret.su[k] = 0 \/ ret.sd[k] = 0
           /\ (\A k \in 2..N : X[k] >= X[k - 1]) => AllZero(ret.sd)

\* the worked example: prices 1..10 give su = [0,1,...,1] and sd all zero
C12_Witness ==
    /\ Done("viz.calculate_su_sd")
    /\ call.vals = Ramp
    /\ ret.status = "ok"
    /\ ret.su = [k \in 1..RampLen |-> IF k = 1 THEN 0 ELSE Scale]
    /\ ret.sd = Zeros(RampLen)

\* A strictly increasing price series of at least two bars, as calculate_usi
\* sees it: as prices, or (Validate_USI_Against_RSI.py) as the strengths
\* calculate_su_sd derives from such prices.
IncreasingInput ==
    /\ N >= 2
    /\ IF call.fn = "val.calculate_usi"
       THEN /\ call.vals[1] = 0
            /\ \A k \in 2..N : call.vals[k] > 0
            /\ AllZero(call.sd)
       ELSE \A k \in 2..N : call.vals[k] > call.vals[k - 1]

UsiDone ==
    /\ Done("viz.calculate_usi") \/ Done("rw.calculate_usi") \/ Done("val.calculate_usi")
    /\ ret.status = "ok"

\* C13 as stated: on a monotonically increasing price series calculate_usi
\* takes positive values (it is not identically 0).
C13_IncreasingTrendsToOne ==
    (UsiDone /\ IncreasingInput) => \E k \in 1..N : ret.val[k] > 0

\* C13, as the code has it: on a strictly increasing price series sd and the
\* smoothed usd are identically zero, the floor usd > 0.01 never passes, and
\* usi is identically 0.
C13_IncreasingGivesZeroUsi ==
    (UsiDone /\ IncreasingInput)
        => /\ AllZero(loc.sd)
           /\ AllZero(loc.usd)
           /\ AllZero(ret.val)

\* the ten-bar ramp 1..10, where su is 1 from the second bar on
C13_Witness ==
    /\ Done("viz.calculate_usi")
    /\ call.vals = Ramp
    /\ ret.status = "ok"
    /\ \A k \in 4..RampLen : loc.usu[k] > UsiFloor
    /\ AllZero(ret.val)

\* C14: every value of the usi series lies in [-1, 1], also where a smoothed
\* strength is negative or zero.
C14_UsiBounded ==
    UsiDone => \A k \in 1..N : ret.val[k] >= -Scale /\ ret.val[k] <= Scale

\* a bar whose smoothed usd is below zero while usu + usd is positive (the
\* quotient would exceed 1 there), and usi is 0 at it
C14_Witness ==
    /\ UsiDone
    /\ \E k \in 1..N :
          /\ loc.usd[k] < 0
          /\ loc.usu[k] + loc.usd[k] > 0
          /\ loc.usu[k] - loc.usd[k] > loc.usu[k] + loc.usd[k]
          /\ ret.val[k] = 0

\* C15: usi[i] = (usu[i] - usd[i]) / (usu[i] + usd[i]) exactly where
\* usu[i] + usd[i] > 0, usu[i] > 0.01 and usd[i] > 0.01, and 0 elsewhere; usu
\* and usd are su and sd smoothed by ultimate_smoother with the call's period;
\* the divisor is never zero where the quotient is taken.
C15_UsiFormula ==
    (Done("viz.calculate_usi") \/ Done("val.calculate_usi")) /\ ret.status = "ok"
        => /\ loc.usu = (IF call.fn = "viz.calculate_usi"
                         THEN viz_ultimate_smoother(loc.su, call.period)
                         ELSE val_ultimate_smoother(loc.su, call.period))
           /\ loc.usd = (IF call.fn = "viz.calculate_usi"
                         THEN viz_ultimate_smoother(loc.sd, call.period)
                         ELSE val_ultimate_smoother(loc.sd, call.period))
           /\ Len(ret.val) = N
           /\ \A k \in 1..N :
                IF /\ loc.usu[k] + loc.usd[k] > 0
                   /\ loc.usu[k] > Scale \div 100
                   /\ loc.usd[k] > Scale \div 100
                THEN /\ loc.usu[k] + loc.usd[k] # 0
                     /\ ret.val[k] = ((loc.usu[k] - loc.usd[k]) * Scale)
                                        \div (loc.usu[k] + loc.usd[k])
                ELSE ret.val[k] = 0

\* an index where the quotient is taken and one where a floor leaves usi at 0
C15_Witness ==
    /\ Done("viz.calculate_usi")
    /\ ret.status = "ok"
    /\ \E k \in 1..N : loc.usu[k] > UsiFloor /\ loc.usd[k] > UsiFloor /\ ret.val[k] # 0
    /\ \E k \in 1..N : loc.usu[k] > UsiFloor /\ loc.usd[k] <= UsiFloor /\ ret.val[k] = 0

\* the power the scan computes for a period, from the coefficients of the call
PowerOf(period) == cc_power_val(loc.coefficients, call.length, period)

Band == call.lower_bound..call.upper_bound

\* C18: the scan returns the smallest period of lower_bound..upper_bound that
\* attains the maximum power when that maximum is > 0 (first seen wins on
\* ties), and 0 when no period's power exceeds 0 (an empty band included).
C18_FirstMaximumWins ==
    (Done("calculate_cycles") /\ ret.status = "ok")
        => IF \E p \in Band : PowerOf(p) > 0
           THEN /\ ret.dominant_cycle \in Band
                /\ \A p \in Band : PowerOf(p) <= PowerOf(ret.dominant_cycle)
                /\ \A p \in Band : p < ret.dominant_cycle
                                      => PowerOf(p) < PowerOf(ret.dominant_cycle)
           ELSE ret.dominant_cycle = 0

\* a tie between at least three periods on a series that is not flat
C18_Witness ==
    /\ Done("calculate_cycles")
    /\ ret.status = "ok"
    /\ ~AllZero(ret.lp)
    /\ call.upper_bound >= call.lower_bound + 2
    /\ \A p \in Band : PowerOf(p) = PowerOf(call.lower_bound) /\ PowerOf(p) > 0
    /\ ret.dominant_cycle = call.lower_bound

\* C19: for every flat series of at least `length` samples and every band
\* with 1 <= lower_bound <= upper_bound, calculate_cycles returns
\* dominant_cycle = lower_bound: xx[length-1] = signal[0] = 0 (hp[0] and lp[0]
\* are seeded to 0), the coefficients stay all-zero after the update, and
\* every scanned period gets the power 0.1.
C19_DominantIsLowerBound ==
    (Done("calculate_cycles") /\ call.kind = "list" /\ N >= call.length
        /\ call.lower_bound <= call.upper_bound)
        => /\ ret.status = "ok"
           /\ At(ret.hp, 0) = 0 /\ At(ret.lp, 0) = 0
           /\ At(loc.signal, 0) = 0
           /\ At(loc.xx, call.length - 1) = At(loc.signal, 0)
           /\ AllZero(loc.coefficients)
           /\ \A p \in Band : PowerOf(p) = Scale \div 10
           /\ ret.dominant_cycle = call.lower_bound

\* prices that rise and fall, a window with non-zero samples, a wide band
C19_Witness ==
    /\ Done("calculate_cycles")
    /\ call.vals = <<1, 3, 0, 3>>
    /\ call.length = 3
    /\ call.lower_bound = 2 /\ call.upper_bound = 3
    /\ ~AllZero(loc.xx)
    /\ ret.status = "ok"
    /\ ret.dominant_cycle = 2

\* C20: the coefficient vector has size `length` and holds the result of one
\* LMS update of the zero vector with mu = 1/length:
\* coefficients[k] = mu * (xx[length-1] - 0) * xx[k].
C20_OneLmsUpdate ==
    (Done("calculate_cycles") /\ ret.status = "ok")
        => /\ Len(loc.xx) = call.length
           /\ Len(loc.coefficients) = call.length
           /\ \A k \in 1..call.length :
                loc.coefficients[k]
                  = ((((Scale \div call.length) * loc.xx[call.length]) \div Scale)
                        * loc.xx[k]) \div Scale

\* a window of three samples with a non-zero sample in it, updated once
C20_Witness ==
    /\ Done("calculate_cycles")
    /\ ret.status = "ok"
    /\ call.length = 3
    /\ At(loc.xx, 0) # 0
    /\ Len(loc.coefficients) = 3
    /\ loc.coefficients = cc_update(loc.xx, Zeros(3), 3)

\* C16: no operation changes an element or the length of the sequence object
\* it was given, at any step; every result it returns is a newly built object.
C16_ArgumentUntouched ==
    /\ heap.arg = to_float_list(call.vals)
    /\ (pc = "done" /\ ret.status = "ok") => \E o \in DOMAIN heap : o # "arg"

\* a smoothed series that differs from the data it was computed from
C16_Witness ==
    /\ Done("viz.ultimate_smoother")
    /\ ret.status = "ok"
    /\ N >= 4
    /\ heap.smoothed # heap.arg
    /\ heap.smoothed = ret.val
    /\ heap.arg = X

\* C17: under every interleaving of two calls (on one CycleDetector instance
\* or on two) no instance or module-level field is written, each finished call
\* has returned what it returns when run alone, and two finished calls with
\* equal input have returned equal results.
C17_CallsIndependent ==
    /\ heap = Shared
    /\ \A t \in Threads : pc[t] = "done" => ret[t] = Alone(call[t])
    /\ \A t, u \in Threads :
          (pc[t] = "done" /\ pc[u] = "done" /\ call[t] = call[u]) => ret[t] = ret[u]

\* two griffiths_predictor calls on different series, the second finished
\* while the first one is still inside its loop after a pass that raised its
\* peak
C17_Witness ==
    /\ call[1].fn = "griffiths_predictor"
    /\ call[2].fn = "griffiths_predictor"
    /\ call[1].vals # call[2].vals
    /\ pc[1] = "loop"
    /\ loc[1].peak > InitPeak
    /\ pc[2] = "done"
    /\ ret[2].status = "ok"
    /\ ~AllZero(ret[2].predictions)

\* the denominator (1 - real)^2 + imag^2 of the call's period
C21_Denom ==
    LET real_part == cc_real_from(call.coefficients, call.length, call.period, 1)
        imag_part == cc_imag_from(call.coefficients, call.length, call.period, 1)
    IN  ((Scale - real_part) * (Scale - real_part)) \div Scale
          + (imag_part * imag_part) \div Scale

\* C21: for every scanned period the power is 0.1 / denominator when the
\* denominator (1 - real)^2 + imag^2 is non-zero and 0 when it is exactly 0;
\* it is never negative, and a zero denominator raises nothing.
C21_PowerGuarded ==
    Done("scan.power")
        => /\ ret.status = "ok"
           /\ ret.val >= 0
           /\ ret.val = IF C21_Denom # 0
                        THEN ((Scale \div 10) * Scale) \div C21_Denom
                        ELSE 0

\* a coefficient vector whose transform is exactly 1: the denominator is 0
C21_Witness ==
    /\ Done("scan.power")
    /\ ~AllZero(call.coefficients)
    /\ C21_Denom = 0
    /\ ret.status = "ok"
    /\ ret.val = 0

\* the largest |s[i]| over the 0-based indices from..(to - 1), or 0
RECURSIVE C22_MaxAbsBetween(_, _, _)
C22_MaxAbsBetween(s, from, to) ==
    IF from >= to THEN 0
    ELSE LET rest == C22_MaxAbsBetween(s, from + 1, to)
             here == IF s[from + 1] < 0 THEN -s[from + 1] ELSE s[from + 1]
         IN  IF here > rest THEN here ELSE rest

C22_InGriffiths == call.fn = "griffiths_predictor" /\ pc \in {"loop", "fwd", "done"}
                      /\ loc # NoLoc

C22_InCycles == Done("calculate_cycles") /\ loc # NoLoc

\* C22: the normalisation peak is at least 0.1 in every state: in
\* calculate_cycles it is max(0.1, max|lp|); in griffiths_predictor it is the
\* largest of 0.1 and the |lp[t]| seen so far (so it never decreases); every
\* normalised sample has |signal| <= 1 and the peak is never 0.
C22_PeakFloor ==
    /\ C22_InCycles
          => /\ loc.peak >= Scale \div 10
             /\ loc.peak = (IF C22_MaxAbsBetween(loc.lp, 0, Len(loc.lp)) > Scale \div 10
                            THEN C22_MaxAbsBetween(loc.lp, 0, Len(loc.lp))
                            ELSE Scale \div 10)
             /\ \A k \in 1..Len(loc.signal) :
                    loc.signal[k] >= -Scale /\ loc.signal[k] <= Scale
    /\ C22_InGriffiths
          => /\ loc.peak >= Scale \div 10
             /\ loc.peak = (IF C22_MaxAbsBetween(loc.lp, call.length, loc.t) > Scale \div 10
                            THEN C22_MaxAbsBetween(loc.lp, call.length, loc.t)
                            ELSE Scale \div 10)
             /\ pc = "loop" => \A k \in 1..Len(loc.xx) :
                                   loc.xx[k] >= -Scale /\ loc.xx[k] <= Scale

\* the predictor's loop after two passes, the peak raised above its floor and
\* the sample that raised it normalised to +1 or -1
C22_Witness ==
    /\ C22_InGriffiths
    /\ pc = "loop"
    /\ loc.t >= call.length + 2
    /\ loc.peak > Scale \div 10
    /\ \E k \in 1..Len(loc.xx) : loc.xx[k] = Scale \/ loc.xx[k] = -Scale

\* a pass of the in-sample loop that ran to its end
C23_Pass == pc = "loop" /\ pc' = "loop"

C23_Sum(u, v) == LET RECURSIVE S(_)
                     S(k) == IF k > Len(u) THEN 0 ELSE (u[k] * v[k]) \div Scale + S(k + 1)
                 IN  S(1)

\* C23: pass t of the in-sample loop updates peak, normalises lp[t] to signal,
\* shifts xx left and puts signal last, stores prediction = dot(xx, coef)
\* (new window, weights of before the pass) in predictions[t], and only then
\* adds mu * (signal - prediction) * xx to coef; predictions below index
\* `length` stay 0 and xx keeps exactly `length` entries.
C23_PassOrder ==
    [][C23_Pass =>
         LET t == loc.t
             lpt == loc.lp[t + 1]
             mag == IF lpt < 0 THEN -lpt ELSE lpt
             peak == IF mag > loc.peak THEN mag ELSE loc.peak
             signal == (lpt * Scale) \div peak
             prediction == C23_Sum(loc'.xx, loc.coef)
         IN  /\ t >= call.length
             /\ loc'.t = t + 1
             /\ loc'.peak = peak
             /\ Len(loc'.xx) = call.length
             /\ \A k \in 1..(call.length - 1) : loc'.xx[k] = loc.xx[k + 1]
             /\ loc'.xx[call.length] = signal
             /\ loc'.predictions[t + 1] = prediction
             /\ \A k \in 1..Len(loc.predictions) :
                    k # t + 1 => loc'.predictions[k] = loc.predictions[k]
             /\ \A k \in 1..call.length : loc'.predictions[k] = 0
             /\ \A k \in 1..call.length :
                    loc'.coef[k] = loc.coef[k]
                        + ((((Scale \div call.length) * (signal - prediction)) \div Scale)
                              * loc'.xx[k]) \div Scale
    ]_vars

\* after a second pass whose prediction, made with the weights of the first
\* pass, is not 0
C23_Witness ==
    /\ call.fn = "griffiths_predictor"
    /\ pc = "loop"
    /\ loc # NoLoc
    /\ loc.t >= call.length + 2
    /\ loc.predictions[loc.t] # 0
    /\ ~AllZero(loc.coef)

\* a step of the forward extrapolation
C24_Step == pc = "fwd" /\ pc' = "fwd" /\ loc'.i = loc.i + 1

\* C24: the extrapolation runs exactly bars_fwd steps; step i stores
\* future = dot(xx, coef) as forecast i, then shifts xx left and writes the
\* forecast last; coef, peak and the predictions are not changed by it, and
\* bars_fwd = 0 gives an empty forecast.
C24_ForwardSteps ==
    /\ [](call.fn = "griffiths_predictor"
              /\ (pc = "fwd" \/ (pc = "done" /\ ret.status = "ok"))
            => /\ loc.i <= call.bars_fwd
               /\ Len(loc.future_signals) = call.bars_fwd
               /\ (pc = "done" /\ ret.status = "ok")
                     => /\ loc.i = call.bars_fwd
                        /\ ret.future_signals = loc.future_signals
                        /\ ret.predictions = loc.predictions
                        /\ call.bars_fwd = 0 => ret.future_signals = <<>>)
    /\ [][C24_Step =>
            LET future == C23_Sum(loc.xx, loc.coef)
            IN  /\ loc.i < call.bars_fwd
                /\ loc'.future_signals[loc.i + 1] = future
                /\ \A k \in 1..call.bars_fwd :
                       k # loc.i + 1 => loc'.future_signals[k] = loc.future_signals[k]
                /\ \A k \in 1..(call.length - 1) : loc'.xx[k] = loc.xx[k + 1]
                /\ loc'.xx[call.length] = future
                /\ loc'.coef = loc.coef
                /\ loc'.peak = loc.peak
                /\ loc'.predictions = loc.predictions
       ]_vars

\* a finished call whose second forecast differs from its first
C24_Witness ==
    /\ Done("griffiths_predictor")
    /\ ret.status = "ok"
    /\ call.bars_fwd >= 2
    /\ ret.future_signals[1] # 0
    /\ ret.future_signals[2] # ret.future_signals[1]
    /\ loc.xx[call.length] = ret.future_signals[call.bars_fwd]

\* C25: a series of n samples with 2 <= n <= length raises nothing in
\* griffiths_predictor: no pass of the in-sample loop runs, the weights stay
\* zero, and it returns n predictions and bars_fwd forecasts that are all 0;
\* in general the loop starts at index `length`, with an empty window and the
\* peak at 0.1 whatever lp holds below that index.
C25_ShortHistory ==
    /\ (Done("griffiths_predictor") /\ N >= 2 /\ N <= call.length)
          => /\ ret.status = "ok"
             /\ ret.predictions = Zeros(N)
             /\ ret.future_signals = Zeros(call.bars_fwd)
             /\ AllZero(loc.coef)
             /\ loc.t = call.length
    /\ (call.fn = "griffiths_predictor" /\ pc = "loop" /\ loc.t = call.length)
          => /\ loc.xx = Zeros(call.length)
             /\ loc.peak = Scale \div 10
             /\ AllZero(loc.predictions)

\* three samples, a window of three, a forecast asked for: zeros come back
\* although lp has a non-zero sample
C25_Witness ==
    /\ Done("griffiths_predictor")
    /\ N = 3 /\ call.length = 3
    /\ call.bars_fwd > 0
    /\ ~AllZero(loc.lp)
    /\ ret.status = "ok"
    /\ AllZero(ret.predictions)
    /\ AllZero(ret.future_signals)

\* C26: for a price series of length n >= 2 and any q, two_pole_predictor
\* returns n values, the first two 0, and for i >= 2
\* predicted[i] = c0*lp[i] - c1*lp[i-1] - c2*lp[i-2], where
\* lp = super_smoother(highpass_filter(prices, 15), 30) and
\* (c0, c1, c2) = (1, 1.8q, -q^2) / (1 - 1.8q + q^2).
C26_TwoPoleFormula ==
    (Done("two_pole_predictor") /\ N >= 2)
        => LET q == call.q
               lp == fn_super_smoother(fn_highpass_filter(X, 15), 30)
               sum_coeffs == Scale - FMul((18 * Scale) \div 10, q) + FMul(q, q)
               c0 == FDiv(Scale, sum_coeffs)
               c1 == FDiv(FMul((18 * Scale) \div 10, q), sum_coeffs)
               c2 == FDiv(-FMul(q, q), sum_coeffs)
           IN  /\ ret.status = "ok"
               /\ Len(ret.val) = N
               /\ At(ret.val, 0) = 0
               /\ At(ret.val, 1) = 0
               /\ loc.lp = lp
               /\ \A i \in 2..(N - 1) :
                     At(ret.val, i) = FMul(c0, At(lp, i)) - FMul(c1, At(lp, i - 1))
                                          - FMul(c2, At(lp, i - 2))

\* a call whose last bar meets non-zero lp samples at all three taps, q > 0
C26_Witness ==
    /\ Done("two_pole_predictor")
    /\ ret.status = "ok"
    /\ N >= 5
    /\ call.q > 0
    /\ At(loc.lp, N - 1) # 0
    /\ At(loc.lp, N - 2) # 0
    /\ At(loc.lp, N - 3) # 0
    /\ loc.c2 # 0
    /\ At(ret.val, N - 1) # 0

\* C27: sum_coeffs = 1 - 1.8q + q^2 is strictly positive for every q, so no
\* division by zero happens, and the normalised coefficients satisfy
\* c0 - c1 - c2 = 1 (up to the rounding of the three quotients).
C27_NormaliserPositive ==
    (Done("two_pole_predictor") /\ N >= 2)
        => /\ ret.status = "ok"
           /\ loc.sum_coeffs > 0
           /\ loc.sum_coeffs = Scale - FMul((18 * Scale) \div 10, call.q)
                                     + FMul(call.q, call.q)
           /\ Abs((loc.c0 - loc.c1 - loc.c2) - Scale) <= 1

\* q = 0.9, where the normaliser is smallest (0.19)
C27_Witness ==
    /\ Done("two_pole_predictor")
    /\ ret.status = "ok"
    /\ call.q = (9 * Scale) \div 10
    /\ loc.sum_coeffs < Scale \div 5
    /\ loc.sum_coeffs > 0
    /\ loc.c0 > 5 * Scale

\* C28: super_smoother and ultimate_smoother return every constant series
\* unchanged, for every period and every length: the SuperSmoother
\* coefficients c1 + c2 + c3 sum to 1 and the five UltimateSmoother taps
\* (1-c1) + (2c1-c2) - (c1+c3) + c2 + c3 sum to 1.
C28_ConstantIsFixedPoint ==
    LET period == call.period
        a == ExpTab[period]
        b == FMul(2 * a, CosDegTab[period])
        sc1 == Scale - b + FMul(a, a)
        sc2 == b
        sc3 == -FMul(a, a)
        uc1 == (Scale + sc2 - sc3) \div 4
    IN  /\ (Done("cd.super_smoother") \/ Done("fn.super_smoother"))
              => sc1 + sc2 + sc3 = Scale
        /\ (Done("viz.ultimate_smoother") \/ Done("val.ultimate_smoother"))
              => (Scale - uc1) + (2 * uc1 - sc2) - (uc1 + sc3) + sc2 + sc3 = Scale
        /\ ((Done("cd.super_smoother") \/ Done("fn.super_smoother")
               \/ Done("viz.ultimate_smoother") \/ Done("val.ultimate_smoother"))
             /\ call.kind = "list" /\ IsConstant(X))
              => (ret.status = "ok" /\ ret.val = X)

\* C30: after any sequence of validate_portfolio_data, normalize_portfolio_data
\* and map_data_to_agents calls with no fetch_portfolio_data among them,
\* validate_portfolio_data returns (False, "No portfolio data found.").
C30_ValidOnlyAfterFetch ==
    (/\ pc = "done"
     /\ Len(call) > 0
     /\ call[Len(call)].fn = "validate_portfolio_data"
     /\ \A i \in 1..Len(call) : call[i].fn # "fetch_portfolio_data")
        => ret.val = <<FALSE, "No portfolio data found.">>

\* C29: on every non-empty 1-D price series the loop calculate_su_sd (both
\* copies) and the vectorised calculate_su_sd return the same su and sd; on
\* the empty series the loop returns two empty arrays and the vectorised
\* version raises.
C29_LoopEqualsVectorised ==
    LET loop == Done("au.calculate_su_sd") \/ Done("ag.calculate_su_sd")
        vectorised == Done("viz.calculate_su_sd")
    IN  /\ (loop /\ N >= 1)
              => /\ ret.status = "ok"
                 /\ ret.su = viz_calculate_su_sd(X).su
                 /\ ret.sd = viz_calculate_su_sd(X).sd
        /\ (vectorised /\ N >= 1)
              => /\ ret.status = "ok"
                 /\ ret.su = au_calculate_su_sd(X).su
                 /\ ret.sd = au_calculate_su_sd(X).sd
                 /\ ret.su = ag_calculate_su_sd(X).su
                 /\ ret.sd = ag_calculate_su_sd(X).sd
        /\ (loop /\ N = 0)
              => (ret.status = "ok" /\ ret.su = <<>> /\ ret.sd = <<>>)
        /\ (vectorised /\ N = 0) => ret.status = "ValueError"

\* a vectorised call on a series that rises and falls
C29_Witness ==
    /\ Done("viz.calculate_su_sd")
    /\ N >= 3
    /\ ret.status = "ok"
    /\ \E j, k \in 2..N : ret.su[j] > 0 /\ ret.sd[k] > 0
    /\ ret.su = au_calculate_su_sd(X).su
    /\ ret.sd = au_calculate_su_sd(X).sd

====
